---- MODULE Spec2Model ----
(***************************************************************************)
(* A model of the PandasPackage plugin: the HyperExcelRead node with its   *)
(* dynamic output pins, the DataFrame / Figure pin validators, the         *)
(* function libraries, the viewer nodes and the dialogs of the UI nodes.   *)
(*                                                                         *)
(* Python strings are sequences of one-character strings; other Python     *)
(* values are tagged records (PyNone, PyInt, ...).                         *)
(***************************************************************************)
EXTENDS Integers, Sequences, FiniteSets, TLC

VARIABLES
    pins,         \* the node's pins: pin name -> [dataType, data]
    sheetNames,   \* HyperExcelRead._sheetNames
    sheetPinMap,  \* HyperExcelRead._sheetPinMap: sheet name -> pin name
    lastPath,     \* HyperExcelRead._lastPath
    error,        \* the node's error state (setError / clearError)
    fs,           \* the file system: path -> what is stored there
    op,           \* log of the last operation run on the node
    call,         \* a pending invocation of a stateless function
    ret,          \* what that invocation delivered
    viewer,       \* the data viewer of UI node "A": its viewable pins, viewerDialog,
                  \* isDialogVisible and the dialogs left open without a reference
    uiNodes,      \* UI node -> [propertiesDialog, isPropertiesDialogVisible, alive]
    manager,      \* PropertiesDialogManager: _active_dialogs and _current_dialog
    dialogs,      \* the PropertiesDialog objects created so far: id -> [node, visible]
    uop           \* log of the last operation on the UI

nodeVars == <<pins, sheetNames, sheetPinMap, lastPath, error, fs, op>>
libVars == <<call, ret>>
uiVars == <<viewer, uiNodes, manager, dialogs, uop>>
vars == <<pins, sheetNames, sheetPinMap, lastPath, error, fs, op, call, ret,
          viewer, uiNodes, manager, dialogs, uop>>

----------------------------------------------------------------------------
(* Bounds *)

\* longest string handed to _sanitizePinName
MaxNameLen == 3
\* most rows of a DataFrame handed to the filters
MaxRows == 3
\* longest value_list string handed to FilterByList
MaxListLen == 4
\* most lines of a function_code handed to UniversalDataProcessor
MaxCodeLines == 3
\* most PropertiesDialog objects created in one run
MaxDialogs == 2
\* most viewer dialogs left open without a reference from their node
MaxOrphans == 1

----------------------------------------------------------------------------
(* Python values and strings *)

Letters == {"a", "b", "c", "d", "e", "h", "i", "n", "o", "p", "q", "r", "s", "t", "u", "x", "E"}
Digits == {"0", "1", "2", "3", "4", "5", "6", "7", "8", "9"}
Whitespace == {" "}

PyNone == [t |-> "None"]
PyInt(i) == [t |-> "int", v |-> i]
PyStr(s) == [t |-> "str", s |-> s]

\* isinstance(v, str)
IsStr(v) == v.t = "str"

\* Python truthiness of None, an int or a str
Truthy(v) ==
    CASE v.t = "None" -> FALSE
      [] v.t = "int" -> v.v # 0
      [] v.t = "str" -> v.s # <<>>

\* the seqs of length 0..n over S
SeqsUpTo(S, n) == UNION {[1..k -> S] : k \in 0..n}

Range(f) == {f[x] : x \in DOMAIN f}

\* str.strip(chars): drop the leading and the trailing characters that are in chars
RECURSIVE LStrip(_, _)
LStrip(s, chars) ==
    IF s # <<>> /\ Head(s) \in chars THEN LStrip(Tail(s), chars) ELSE s

RECURSIVE RStrip(_, _)
RStrip(s, chars) ==
    IF s # <<>> /\ s[Len(s)] \in chars THEN RStrip(SubSeq(s, 1, Len(s) - 1), chars) ELSE s

Strip(s, chars) == RStrip(LStrip(s, chars), chars)

----------------------------------------------------------------------------
(* HyperExcelRead._sanitizePinName *)

\* \w of the regular expression, over the characters of the model
IsWordChar(c) == c \in Letters \cup Digits \cup {"_"}

\* re.sub(r'[^\w\-]', '_', s)
ReplaceInvalid(s) == [i \in 1..Len(s) |-> IF IsWordChar(s[i]) \/ s[i] = "-" THEN s[i] ELSE "_"]

sSheet == <<"s", "h", "e", "e", "t">>

SanitizeNoStrip(v) ==
    IF ~Truthy(v) \/ ~IsStr(v) THEN sSheet
    ELSE LET replaced == ReplaceInvalid(v.s)
             nonEmpty == IF replaced = <<>> THEN sSheet ELSE replaced
         IN  IF nonEmpty[1] \in Digits THEN sSheet \o <<"_">> \o nonEmpty ELSE nonEmpty

SanitizePinName(v) ==
    IF ~Truthy(v) \/ ~IsStr(v) THEN sSheet
    ELSE LET stripped == Strip(ReplaceInvalid(v.s), {"_", "."})
             nonEmpty == IF stripped = <<>> THEN sSheet ELSE stripped
         IN  IF nonEmpty[1] \in Digits THEN sSheet \o <<"_">> \o nonEmpty ELSE nonEmpty

----------------------------------------------------------------------------
(* The host's pin interface, as HyperExcelRead uses it *)

sData == <<"d", "a", "t", "a">>
sPath == <<"p", "a", "t", "h">>
sHeader == <<"h", "e", "a", "d", "e", "r">>
sInExec == <<"i", "n", "E", "x", "e", "c">>
sOutExec == <<"o", "u", "t", "E", "x", "e", "c">>

EmptyDF == [df |-> "empty"]
SheetDF(sheet) == [df |-> "sheet", sheet |-> sheet]

\* self.getPinByName(name) finds a pin
HasPin(ps, name) == name \in DOMAIN ps

\* self.getUniqPinName(name): name itself unless a pin of that name exists on the
\* node, and then name with the first free index appended
GetUniqPinName(ps, name) ==
    IF name \notin DOMAIN ps THEN name
    ELSE LET free == {k \in 1..9 : (name \o <<ToString(k)>>) \notin DOMAIN ps}
             k == CHOOSE i \in free : \A j \in free : i <= j
         IN  name \o <<ToString(k)>>

\* the name self.createOutputPin(name, ...) gives the pin it creates
CreatedName(ps, name) == GetUniqPinName(ps, name)

\* self.createOutputPin(name, dataType, defaultValue=...)
CreateOutputPin(ps, name, dataType, default) ==
    LET actual == CreatedName(ps, name)
    IN  [x \in DOMAIN ps \cup {actual} |->
            IF x = actual THEN [dataType |-> dataType, data |-> default] ELSE ps[x]]

\* pin.kill()
KillPin(ps, name) == [x \in DOMAIN ps \ {name} |-> ps[x]]

\* pin.setData(data) on the pin called name, when there is one
SetPinData(ps, name, data) ==
    IF HasPin(ps, name) THEN [ps EXCEPT ![name].data = data] ELSE ps

----------------------------------------------------------------------------
(* HyperExcelRead: construction and _updateOutputPins *)

NoError == "none"
EmptyMap == [x \in {} |-> <<>>]
NoUpdate == [called |-> FALSE, arg |-> <<>>, preMap |-> EmptyMap, prePins |-> {},
             killed |-> {}, created |-> {}]

\* __init__: the input pins, outExec, the default "data" output, empty tracking
InitPins ==
    [x \in {sPath, sHeader, sInExec, sOutExec, sData} |->
        CASE x = sPath -> [dataType |-> "StringPin", data |-> PyStr(<<>>)]
          [] x = sHeader -> [dataType |-> "IntPin", data |-> PyInt(0)]
          [] x = sData -> [dataType |-> "DataFramePin", data |-> EmptyDF]
          [] OTHER -> [dataType |-> "ExecPin", data |-> PyNone]]

NewNode ==
    [pins |-> InitPins, sheetNames |-> <<>>, sheetPinMap |-> EmptyMap,
     lastPath |-> <<>>, error |-> NoError, upd |-> NoUpdate]

\* the names of the DataFramePin pins (lines 93-96)
DataFramePinNames(ps) == {x \in DOMAIN ps : ps[x].dataType = "DataFramePin"}

IsDataFramePin(ps, name) == HasPin(ps, name) /\ ps[name].dataType = "DataFramePin"

\* lines 98-116: the default "data" pin goes when there are sheets and comes back
\* when there are none; the result is the pins, the current_pin_names set and
\* what was killed and created
DefaultPinStep(ps, sheet_names) ==
    LET current == DataFramePinNames(ps)
    IN  IF sheet_names # <<>>
        THEN IF IsDataFramePin(ps, sData)
             THEN [pins |-> KillPin(ps, sData), current |-> current \ {sData},
                   killed |-> {sData}, created |-> {}]
             ELSE [pins |-> ps, current |-> current, killed |-> {}, created |-> {}]
        ELSE IF ~IsDataFramePin(ps, sData)
             THEN [pins |-> CreateOutputPin(ps, sData, "DataFramePin", EmptyDF),
                   current |-> current \cup {sData},
                   killed |-> {}, created |-> {CreatedName(ps, sData)}]
             ELSE [pins |-> ps, current |-> current, killed |-> {}, created |-> {}]

\* lines 119-127: the pin name chosen for each sheet
SheetToPinMap(ps, sheet_names) ==
    [s \in Range(sheet_names) |-> GetUniqPinName(ps, SanitizePinName(PyStr(s)))]

\* lines 130-134: kill the DataFramePin pins no sheet needs any more
RECURSIVE KillAll(_, _)
KillAll(ps, names) ==
    IF names = {} THEN ps
    ELSE LET n == CHOOSE x \in names : TRUE
         IN  KillAll(IF IsDataFramePin(ps, n) THEN KillPin(ps, n) ELSE ps, names \ {n})

\* lines 137-145: create, sheet by sheet, the pins that are not in current_pin_names;
\* acc is [pins, created]
RECURSIVE CreateMissing(_, _, _, _)
CreateMissing(acc, sheet_names, map, current) ==
    IF sheet_names = <<>> THEN acc
    ELSE LET pin_name == map[Head(sheet_names)]
             next == IF pin_name \notin current
                     THEN [pins |-> CreateOutputPin(acc.pins, pin_name, "DataFramePin", EmptyDF),
                           created |-> acc.created \cup {CreatedName(acc.pins, pin_name)}]
                     ELSE acc
         IN  CreateMissing(next, Tail(sheet_names), map, current)

\* _updateOutputPins(sheet_names) on node n
UpdateOutputPins(n, sheet_names) ==
    LET d == DefaultPinStep(n.pins, sheet_names)
        map == SheetToPinMap(d.pins, sheet_names)
        new_pin_names == Range(map)
        pins_to_remove == (d.current \ new_pin_names) \ {sData}
        removed == {x \in pins_to_remove : IsDataFramePin(d.pins, x)}
        afterKill == KillAll(d.pins, pins_to_remove)
        c == CreateMissing([pins |-> afterKill, created |-> d.created],
                           sheet_names, map, d.current)
    IN  [n EXCEPT !.pins = c.pins,
                  !.sheetNames = sheet_names,
                  !.sheetPinMap = map,
                  !.upd = [called |-> TRUE, arg |-> sheet_names,
                           preMap |-> n.sheetPinMap,
                           prePins |-> DataFramePinNames(n.pins),
                           killed |-> d.killed \cup removed,
                           created |-> c.created]]

----------------------------------------------------------------------------
(* The files HyperExcelRead reads *)

Missing == [kind |-> "missing"]
Unreadable == [kind |-> "unreadable"]
Book(sheets) == [kind |-> "book", sheets |-> sheets]

\* what os.path.exists / pd.ExcelFile find at path
Lookup(files, path) == IF path \in DOMAIN files THEN files[path] ELSE Missing

\* "not path or not isinstance(path, str) or not path.strip()"
BlankPath(v) == ~Truthy(v) \/ ~IsStr(v) \/ Strip(v.s, Whitespace) = <<>>

----------------------------------------------------------------------------
(* HyperExcelRead.onPathChanged *)

\* "if self._sheetNames: self._updateOutputPins([])" followed by "self._lastPath = ''"
ResetPins(n) ==
    [(IF n.sheetNames # <<>> THEN UpdateOutputPins(n, <<>>) ELSE n) EXCEPT !.lastPath = <<>>]

\* onPathChanged without the comparison with _lastPath: every non-blank path is
\* processed again
OnPathChanged_NoSkip(n0, files) ==
    LET n == [n0 EXCEPT !.upd = NoUpdate]
        v == n.pins[sPath].data
    IN  IF BlankPath(v) THEN [node |-> ResetPins(n), outcome |-> "blank"]
        ELSE LET path == Strip(v.s, Whitespace)
                 file == Lookup(files, path)
             IN  CASE file.kind = "missing" ->
                        [node |-> ResetPins([n EXCEPT !.error = "File not found"]),
                         outcome |-> "missing"]
                   [] file.kind = "unreadable" ->
                        [node |-> ResetPins([n EXCEPT !.error = "Error reading Excel file"]),
                         outcome |-> "unreadable"]
                   [] file.kind = "book" /\ file.sheets = <<>> ->
                        [node |-> UpdateOutputPins([n EXCEPT !.error = "No sheets found"], <<>>),
                         outcome |-> "nosheets"]
                   [] OTHER ->
                        [node |-> [UpdateOutputPins([n EXCEPT !.error = NoError], file.sheets)
                                      EXCEPT !.lastPath = path],
                         outcome |-> IF path = n.lastPath THEN "unchanged" ELSE "loaded"]

\* the result is [node, outcome]
OnPathChanged(n0, files) ==
    LET n == [n0 EXCEPT !.upd = NoUpdate]
        v == n.pins[sPath].data
    IN  IF BlankPath(v) THEN [node |-> ResetPins(n), outcome |-> "blank"]
        ELSE LET path == Strip(v.s, Whitespace)
                 file == Lookup(files, path)
             IN  CASE path = n.lastPath -> [node |-> n, outcome |-> "unchanged"]
                   [] path # n.lastPath /\ file.kind = "missing" ->
                        [node |-> ResetPins([n EXCEPT !.error = "File not found"]),
                         outcome |-> "missing"]
                   [] path # n.lastPath /\ file.kind = "unreadable" ->
                        [node |-> ResetPins([n EXCEPT !.error = "Error reading Excel file"]),
                         outcome |-> "unreadable"]
                   [] path # n.lastPath /\ file.kind = "book" /\ file.sheets = <<>> ->
                        [node |-> UpdateOutputPins([n EXCEPT !.error = "No sheets found"], <<>>),
                         outcome |-> "nosheets"]
                   [] OTHER ->
                        [node |-> [UpdateOutputPins([n EXCEPT !.error = NoError], file.sheets)
                                      EXCEPT !.lastPath = path],
                         outcome |-> "loaded"]

----------------------------------------------------------------------------
(* HyperExcelRead.compute *)

\* self._sheetPinMap.get(sheet_name), None when the sheet has no entry
MapGet(map, sheet) == IF sheet \in DOMAIN map THEN PyStr(map[sheet]) ELSE PyNone

\* the loops that set an empty DataFrame on every sheet's pin (lines 223-228, 238-243,
\* 277-282)
RECURSIVE ClearSheetPins(_, _, _)
ClearSheetPins(ps, sheets, map) ==
    IF sheets = <<>> THEN ps
    ELSE LET pin_name == MapGet(map, Head(sheets))
         IN  ClearSheetPins(IF Truthy(pin_name) THEN SetPinData(ps, pin_name.s, EmptyDF) ELSE ps,
                            Tail(sheets), map)

\* lines 257-270: read each sheet into its pin; a sheet in bad raises in read_excel;
\* acc is [pins, error]
RECURSIVE ReadSheets(_, _, _, _)
ReadSheets(acc, sheets, map, bad) ==
    IF sheets = <<>> THEN acc
    ELSE LET sheet == Head(sheets)
             pin_name == MapGet(map, sheet)
             next == IF ~Truthy(pin_name) THEN acc
                     ELSE IF sheet \notin bad
                          THEN [acc EXCEPT !.pins = SetPinData(acc.pins, pin_name.s, SheetDF(sheet))]
                          ELSE [pins |-> SetPinData(acc.pins, pin_name.s, EmptyDF),
                                error |-> "Error reading sheet"]
         IN  ReadSheets(next, Tail(sheets), map, bad)

\* lines 234-245: the file does not exist
ComputeMissing_KeepsData(n) == [n EXCEPT !.error = "File not found"]

ComputeMissing(n) ==
    [n EXCEPT !.error = "File not found",
              !.pins = ClearSheetPins(n.pins, n.sheetNames, n.sheetPinMap)]

\* lines 274-282: pd.ExcelFile raised
ComputeUnreadable(n) ==
    [n EXCEPT !.error = "Error reading Excel file",
              !.pins = ClearSheetPins(n.pins, n.sheetNames, n.sheetPinMap)]

\* lines 248-272: the file opened
ComputeBook(n, sheets, bad) ==
    LET n1 == IF Range(sheets) # Range(n.sheetNames) THEN UpdateOutputPins(n, sheets) ELSE n
        r == ReadSheets([pins |-> n1.pins, error |-> n1.error],
                        n1.sheetNames, n1.sheetPinMap, bad)
    IN  [n1 EXCEPT !.pins = r.pins, !.error = NoError]

\* compute: the result is [node, outcome]; outExec is called on every path
Compute(n0, files, bad) ==
    LET n == [n0 EXCEPT !.upd = NoUpdate]
        v == n.pins[sPath].data
    IN  IF BlankPath(v)
        THEN [node |-> [n EXCEPT !.pins = ClearSheetPins(n.pins, n.sheetNames, n.sheetPinMap)],
              outcome |-> "blank"]
        ELSE LET file == Lookup(files, Strip(v.s, Whitespace))
             IN  CASE file.kind = "missing" -> [node |-> ComputeMissing(n), outcome |-> "missing"]
                   [] file.kind = "unreadable" ->
                        [node |-> ComputeUnreadable(n), outcome |-> "unreadable"]
                   [] OTHER -> [node |-> ComputeBook(n, file.sheets, bad), outcome |-> "read"]

----------------------------------------------------------------------------
(* HyperExcelRead.serialize and postCreate *)

NoTemplate == [none |-> TRUE]

\* serialize(): the host's dictionary (of which the model keeps the path pin's value)
\* with sheetNames, sheetPinMap and lastPath added
Serialize(n) ==
    [none |-> FALSE, path |-> n.pins[sPath].data, sheetNames |-> n.sheetNames,
     sheetPinMap |-> n.sheetPinMap, lastPath |-> n.lastPath]

\* lines 323-333: create the pins of the restored map that do not exist
RECURSIVE RestorePins(_, _, _)
RestorePins(ps, sheets, map) ==
    IF sheets = <<>> THEN ps
    ELSE LET pin_name == MapGet(map, Head(sheets))
         IN  RestorePins(IF Truthy(pin_name) /\ ~HasPin(ps, pin_name.s)
                         THEN CreateOutputPin(ps, pin_name.s, "DataFramePin", EmptyDF)
                         ELSE ps,
                         Tail(sheets), map)

PostCreate_LosesLastPath(n0, jsonTemplate) ==
    IF jsonTemplate.none THEN n0
    ELSE LET n == [n0 EXCEPT !.upd = NoUpdate,
                             !.pins = [n0.pins EXCEPT ![sPath].data = jsonTemplate.path]]
         IN  IF jsonTemplate.sheetNames # <<>>
             THEN [n EXCEPT !.sheetNames = jsonTemplate.sheetNames,
                            !.sheetPinMap = jsonTemplate.sheetPinMap,
                            !.pins = RestorePins(n.pins, jsonTemplate.sheetNames,
                                                 jsonTemplate.sheetPinMap)]
             ELSE n

\* postCreate(jsonTemplate) on node n0; the host's part restores the input pins' values
PostCreate(n0, jsonTemplate) ==
    IF jsonTemplate.none THEN n0
    ELSE LET n == [n0 EXCEPT !.upd = NoUpdate,
                             !.pins = [n0.pins EXCEPT ![sPath].data = jsonTemplate.path]]
             restored ==
                 IF jsonTemplate.sheetNames # <<>>
                 THEN [n EXCEPT !.sheetNames = jsonTemplate.sheetNames,
                                !.sheetPinMap = jsonTemplate.sheetPinMap,
                                !.pins = RestorePins(n.pins, jsonTemplate.sheetNames,
                                                     jsonTemplate.sheetPinMap)]
                 ELSE n
         IN  [restored EXCEPT !.lastPath = jsonTemplate.lastPath]

----------------------------------------------------------------------------
(* DataFrames, as the pins and the filters see them *)

\* a DataFrame: its columns and its rows in order; a row keeps its index label
DataFrame(cols, rows) == [t |-> "DataFrame", cols |-> cols, rows |-> rows]
Figure(id) == [t |-> "Figure", id |-> id]

\* pd.DataFrame()
NewDataFrame == DataFrame({}, <<>>)

\* data.empty: no rows or no columns
IsEmptyFrame(df) == df.rows = <<>> \/ df.cols = {}

PyNum(n) == [t |-> "num", v |-> n]
NaN == [t |-> "nan"]

\* the frames with the one column "c" over the cell values vals: n rows labelled 1..n
FramesOver(vals, n) ==
    UNION {{DataFrame({"c"}, [i \in 1..k |-> [idx |-> i, c |-> cells[i]]]) :
                cells \in [1..k -> vals]} : k \in 0..n}

----------------------------------------------------------------------------
(* DataFramePin.processData and MatplotlibFigurePin.processData *)

Returned(v) == [kind |-> "value", value |-> v]
Raised(exc) == [kind |-> exc]

DataFramePin_processData_Unchecked(data) ==
    IF data = PyNone THEN Returned(NewDataFrame) ELSE Returned(data)

DataFramePin_processData(data) ==
    IF data = PyNone THEN Returned(NewDataFrame)
    ELSE IF data.t = "DataFrame" THEN Returned(data)
    ELSE Raised("TypeError")

\* importable: whether "import matplotlib.figure" succeeds
MatplotlibFigurePin_processData(data, importable) ==
    IF data = PyNone THEN Returned(PyNone)
    ELSE IF ~importable THEN Raised("ImportError")
    ELSE IF data.t = "Figure" THEN Returned(data)
    ELSE Raised("TypeError")

----------------------------------------------------------------------------
(* DataFilterLib.FilterByCondition and FilterByList *)

Delivered(df) == [kind |-> "result", value |-> df]

\* the boolean mask of "data[column_name] <operator> threshold" for one cell
Satisfies(operator, cell, threshold) ==
    IF cell.t = "nan" THEN operator = "!="
    ELSE CASE operator = "<" -> cell.v < threshold
           [] operator = ">" -> cell.v > threshold
           [] operator = "<=" -> cell.v <= threshold
           [] operator = ">=" -> cell.v >= threshold
           [] operator = "==" -> cell.v = threshold
           [] operator = "!=" -> cell.v # threshold

\* data[mask]: the rows whose entry of the boolean mask is true, in order
RECURSIVE SelectRows(_, _)
SelectRows(rows, mask) ==
    IF rows = <<>> THEN <<>>
    ELSE (IF Head(mask) THEN <<Head(rows)>> ELSE <<>>) \o SelectRows(Tail(rows), Tail(mask))

\* ~mask
Negate(mask) == [i \in 1..Len(mask) |-> ~mask[i]]

\* data[column_name].isin(values): values holds strings
IsInMask(data, column_name, values) ==
    [i \in 1..Len(data.rows) |->
        data.rows[i][column_name].t = "str" /\ data.rows[i][column_name].s \in values]

\* data[column_name] <operator> threshold
ConditionMask(data, column_name, operator, threshold) ==
    [i \in 1..Len(data.rows) |-> Satisfies(operator, data.rows[i][column_name], threshold)]

FilterByCondition_StrictOnly(data, column_name, operator, threshold) ==
    IF data = PyNone \/ IsEmptyFrame(data) THEN Delivered(NewDataFrame)
    ELSE IF column_name \notin data.cols THEN Raised("ValueError")
    ELSE IF operator \notin {"<", ">", "<=", ">=", "==", "!="} THEN Raised("ValueError")
    ELSE LET strict == CASE operator = "<=" -> "<" [] operator = ">=" -> ">" [] OTHER -> operator
             mask == ConditionMask(data, column_name, strict, threshold)
         IN  Delivered([data EXCEPT !.rows = SelectRows(data.rows, mask)])

FilterByCondition(data, column_name, operator, threshold) ==
    IF data = PyNone \/ IsEmptyFrame(data) THEN Delivered(NewDataFrame)
    ELSE IF column_name \notin data.cols THEN Raised("ValueError")
    ELSE IF operator \notin {"<", ">", "<=", ">=", "==", "!="} THEN Raised("ValueError")
    ELSE LET mask == ConditionMask(data, column_name, operator, threshold)
         IN  Delivered([data EXCEPT !.rows = SelectRows(data.rows, mask)])

\* s.split(","): the pieces between the commas
RECURSIVE SplitCommas(_, _)
SplitCommas(s, piece) ==
    IF s = <<>> THEN <<piece>>
    ELSE IF Head(s) = "," THEN <<piece>> \o SplitCommas(Tail(s), <<>>)
    ELSE SplitCommas(Tail(s), Append(piece, Head(s)))

\* [v.strip() for v in value_list.split(",") if v.strip()], as the set isin() uses
ParseValues(value_list) ==
    LET pieces == SplitCommas(value_list, <<>>)
    IN  {Strip(pieces[i], Whitespace) : i \in {j \in 1..Len(pieces) : Strip(pieces[j], Whitespace) # <<>>}}

FilterByList_IgnoresInverse(data, column_name, value_list, inverse) ==
    IF data = PyNone \/ IsEmptyFrame(data) THEN Delivered(NewDataFrame)
    ELSE IF column_name \notin data.cols THEN Raised("ValueError")
    ELSE IF Strip(value_list, Whitespace) = <<>> THEN Raised("ValueError")
    ELSE LET values == ParseValues(value_list)
             mask == IsInMask(data, column_name, values)
         IN  IF values = {} THEN Raised("ValueError")
             ELSE Delivered([data EXCEPT !.rows = SelectRows(data.rows, mask)])

FilterByList(data, column_name, value_list, inverse) ==
    IF data = PyNone \/ IsEmptyFrame(data) THEN Delivered(NewDataFrame)
    ELSE IF column_name \notin data.cols THEN Raised("ValueError")
    ELSE IF Strip(value_list, Whitespace) = <<>> THEN Raised("ValueError")
    ELSE LET values == ParseValues(value_list)
             isin == IsInMask(data, column_name, values)
             mask == IF inverse THEN Negate(isin) ELSE isin
         IN  IF values = {} THEN Raised("ValueError")
             ELSE Delivered([data EXCEPT !.rows = SelectRows(data.rows, mask)])


----------------------------------------------------------------------------
(* UniversalDataProcessorLib.UniversalDataProcessor *)

\* function_code is a sequence of lines. A line is blank, "x = <e>", the expression
\* "<e>", "return <e>", a statement that raises when it runs, or text that is not
\* Python. <e> is one of "data", "data.head(1)", "x", "1/0".
Blank == [k |-> "blank", e |-> ""]
Assign(e) == [k |-> "assign", e |-> e]
Expr(e) == [k |-> "expr", e |-> e]
Return(e) == [k |-> "return", e |-> e]
RaiseStmt == [k |-> "raise", e |-> ""]
BadSyntax == [k |-> "bad", e |-> ""]

Unbound == [t |-> "unbound"]

\* data.head(1)
Head1(df) == [df EXCEPT !.rows = IF df.rows = <<>> THEN <<>> ELSE <<Head(df.rows)>>]

\* the value of expression e where data is data and x is x (Unbound: a NameError)
EvalExpr(e, data, x) ==
    CASE e = "data" -> [ok |-> TRUE, v |-> data]
      [] e = "data.head(1)" -> [ok |-> TRUE, v |-> Head1(data)]
      [] e = "x" -> [ok |-> x # Unbound, v |-> x]
      [] OTHER -> [ok |-> FALSE, v |-> Unbound]

\* running lines one after the other: [status, v], status "returned" with the value
\* returned, "ended" (v is None) or "raised"
RECURSIVE RunLines(_, _, _)
RunLines(lines, data, x) ==
    IF lines = <<>> THEN [status |-> "ended", v |-> PyNone]
    ELSE LET line == Head(lines)
             r == EvalExpr(line.e, data, x)
         IN  CASE line.k = "blank" -> RunLines(Tail(lines), data, x)
               [] line.k \in {"raise", "bad"} -> [status |-> "raised", v |-> Unbound]
               [] line.k \in {"assign", "expr", "return"} /\ ~r.ok ->
                    [status |-> "raised", v |-> Unbound]
               [] line.k = "assign" /\ r.ok -> RunLines(Tail(lines), data, r.v)
               [] line.k = "expr" /\ r.ok -> RunLines(Tail(lines), data, x)
               [] line.k = "return" /\ r.ok -> [status |-> "returned", v |-> r.v]

\* compiling the lines raises SyntaxError
HasSyntaxError(lines) == \E i \in 1..Len(lines) : lines[i].k = "bad"

\* "not function_code or not function_code.strip()"
IsBlankCode(lines) == \A i \in 1..Len(lines) : lines[i].k = "blank"

\* '"return" in function_code'
ContainsReturn(lines) == \E i \in 1..Len(lines) : lines[i].k = "return"

\* function_code.strip().split("\n")[-1].strip(): the last line that is not blank
LastLine(lines) ==
    lines[CHOOSE i \in 1..Len(lines) :
              lines[i].k # "blank" /\ \A j \in (i + 1)..Len(lines) : lines[j].k = "blank"]

\* result(value); events tells what happened to function_code on the way
Processed(value, events) == [kind |-> "result", value |-> value, events |-> events]

\* lines 115-125: the code is wrapped in "def process_data(data):" and called
RunAsFunction(data, lines) ==
    IF HasSyntaxError(lines) THEN [ok |-> FALSE, v |-> Unbound, events |-> {"raised"}]
    ELSE LET r == RunLines(lines, data, Unbound)
         IN  IF r.status = "raised"
             THEN [ok |-> FALSE, v |-> Unbound, events |-> {"run", "raised"}]
             ELSE [ok |-> TRUE, v |-> r.v, events |-> {"run"}]

\* lines 126-144: without "return", the last line is evaluated if it is an expression;
\* if it is not, the code is executed, the last line is given to eval() again, which
\* raises SyntaxError again, and the bare except takes the input data
RunLastLine(data, lines) ==
    LET last_line == LastLine(lines)
    IN  IF last_line.k = "expr"
        THEN LET r == EvalExpr(last_line.e, data, Unbound)
             IN  IF r.ok THEN [ok |-> TRUE, v |-> r.v, events |-> {"run"}]
                 ELSE [ok |-> FALSE, v |-> Unbound, events |-> {"run", "raised"}]
        ELSE [ok |-> TRUE, v |-> data,
              events |-> IF HasSyntaxError(lines) THEN {"raised"} ELSE {"run", "raised"}]

UniversalDataProcessor_NoFallback(data, function_code) ==
    IF data = PyNone THEN Processed(PyNone, {})
    ELSE IF IsBlankCode(function_code) THEN Processed(data, {})
    ELSE LET r == IF ContainsReturn(function_code)
                  THEN RunAsFunction(data, function_code)
                  ELSE RunLastLine(data, function_code)
         IN  IF r.ok THEN Processed(r.v, r.events) ELSE Raised("Exception")

\* UniversalDataProcessor(data, function_code, result)
UniversalDataProcessor(data, function_code) ==
    IF data = PyNone THEN Processed(PyNone, {})
    ELSE IF IsBlankCode(function_code) THEN Processed(data, {})
    ELSE LET r == IF ContainsReturn(function_code)
                  THEN RunAsFunction(data, function_code)
                  ELSE RunLastLine(data, function_code)
         IN  IF r.ok THEN Processed(r.v, r.events) ELSE Processed(data, r.events)

----------------------------------------------------------------------------
(* DataViewerNode.compute and PlotViewerNode.compute, and the dock tools they update *)

\* the value of a pin of structure Multi with several connections
PyList(items) == [t |-> "list", items |-> items]

\* DataViewerTool.setDataFrame -> DataFrameViewerWidget.setDataFrame: what the table
\* shows after the call (None and an empty frame show as an empty table)
DataViewerTool_setDataFrame(df) ==
    IF df = PyNone \/ IsEmptyFrame(df) THEN NewDataFrame ELSE df

\* PlotViewerTool.setFigure -> PlotViewerWidget.setFigure: the figure shown after the
\* call when shown was the figure before (None clears, a non-Figure is refused)
PlotViewerTool_setFigure(shown, figure) ==
    IF figure = PyNone THEN PyNone
    ELSE IF figure.t # "Figure" THEN shown
    ELSE figure

\* the outcome of compute: what the tool shows, whether the tool was updated, and
\* that outExec was called
Computed(shown, touched) ==
    [kind |-> "computed", shown |-> shown, touched |-> touched, outExec |-> TRUE]

\* DataViewerNode.compute; tool is whether invokeDockToolByName returned a tool,
\* shown what that tool shows before the call
DataViewerNode_compute(dirty, inputData, tool, shown) ==
    IF ~dirty THEN Computed(shown, FALSE)
    ELSE IF ~tool THEN Computed(shown, FALSE)
    ELSE IF inputData.t = "list"
         THEN IF inputData.items # <<>>
              THEN Computed(DataViewerTool_setDataFrame(inputData.items[1]), TRUE)
              ELSE Computed(shown, FALSE)
    ELSE IF inputData.t = "DataFrame"
         THEN Computed(DataViewerTool_setDataFrame(inputData), TRUE)
    ELSE Computed(DataViewerTool_setDataFrame(NewDataFrame), TRUE)

\* PlotViewerNode.compute
PlotViewerNode_compute(dirty, inputData, tool, shown) ==
    IF ~dirty THEN Computed(shown, FALSE)
    ELSE IF ~tool THEN Computed(shown, FALSE)
    ELSE IF inputData.t = "list"
         THEN IF inputData.items # <<>>
              THEN Computed(PlotViewerTool_setFigure(shown, inputData.items[1]), TRUE)
              ELSE Computed(PlotViewerTool_setFigure(shown, PyNone), TRUE)
    ELSE IF inputData # PyNone
         THEN Computed(PlotViewerTool_setFigure(shown, inputData), TRUE)
    ELSE Computed(PlotViewerTool_setFigure(shown, PyNone), TRUE)

----------------------------------------------------------------------------
(* UIDataAnalysisBaseNode: the data viewer dialog *)

\* a viewable pin of the node; pin names are plain strings here
ViewPin(name, dataType) == [name |-> name, dataType |-> dataType, data |-> PyNone]

\* a DataFrame with one row holding v
UiFrame(v) == DataFrame({"c"}, <<[c |-> PyNum(v), idx |-> 1]>>)

\* an open viewer dialog of class cls; tabs is what it shows under each pin name
ViewerDialog(cls, tabs) == [cls |-> cls, tabs |-> tabs]

\* lines 181-193 and 281-291: the pins of dataType that hold data, in pin order
WithData(ps, dataType) ==
    SelectSeq(ps, LAMBDA p : p.dataType = dataType /\ p.data # PyNone)

\* DataFrameDialog.setDataFrame: what the table shows
DataFrameDialog_setDataFrame(dataframe) ==
    IF dataframe = PyNone \/ IsEmptyFrame(dataframe) THEN NewDataFrame ELSE dataframe

\* PandasTableModel.__init__ / setDataFrame: what the table of a tab shows
PandasTableModel_setDataFrame(dataframe) ==
    IF dataframe = PyNone THEN NewDataFrame ELSE dataframe

\* what a new tab shows for pin p (a new PlotViewerWidget shows no figure)
TabShows(p) ==
    IF p.dataType = "DataFramePin" THEN PandasTableModel_setDataFrame(p.data)
    ELSE PlotViewerTool_setFigure(PyNone, p.data)

\* one tab per pin of ps
TabsOf(ps) ==
    [name \in {ps[i].name : i \in 1..Len(ps)} |->
        TabShows(ps[CHOOSE i \in 1..Len(ps) : ps[i].name = name])]

\* lines 221-226: the placeholder entry of a pin without data
Placeholder(p) ==
    [p EXCEPT !.data = IF p.dataType = "DataFramePin" THEN NewDataFrame ELSE PyNone]

\* onDialogClosed, the slot of every viewer dialog's finished signal
OnDialogClosed(w) == [w EXCEPT !.isDialogVisible = FALSE, !.viewerDialog = PyNone]

\* closeViewerDialog: QDialog.close() on the open dialog runs closeEvent -> reject(),
\* which hides the dialog and emits finished (connected at line 255) before close()
\* returns
CloseViewerDialog(w) ==
    IF w.viewerDialog # PyNone THEN [OnDialogClosed(w) EXCEPT !.viewerDialog = PyNone] ELSE w

\* showViewerDialog on a node with viewable pins: the dialog class is chosen from the
\* pins that hold data; a dialog still referenced is left open without a reference
ShowViewerDialog(w) ==
    LET dfs == WithData(w.pins, "DataFramePin")
        figs == WithData(w.pins, "MatplotlibFigurePin")
        pins_data == dfs \o figs
        placeholders == [i \in 1..Len(w.pins) |-> Placeholder(w.pins[i])]
        dialog ==
            IF pins_data = <<>>
            THEN ViewerDialog("MixedDataViewerDialog", TabsOf(placeholders))
            ELSE IF dfs # <<>> /\ figs # <<>>
            THEN ViewerDialog("MixedDataViewerDialog", TabsOf(pins_data))
            ELSE IF figs # <<>>
            THEN IF Len(pins_data) = 1
                 THEN ViewerDialog("FigureDialog",
                                   [name \in {figs[1].name} |->
                                       PlotViewerTool_setFigure(PyNone, figs[1].data)])
                 ELSE ViewerDialog("MixedDataViewerDialog", TabsOf(pins_data))
            ELSE IF Len(pins_data) = 1
                 THEN ViewerDialog("DataFrameDialog",
                                   [name \in {dfs[1].name} |->
                                       DataFrameDialog_setDataFrame(dfs[1].data)])
                 ELSE ViewerDialog("MultiDataFrameDialog", TabsOf(dfs))
    IN  [w EXCEPT !.viewerDialog = dialog,
                  !.orphans = IF w.viewerDialog # PyNone THEN @ + 1 ELSE @]

\* MixedDataViewerDialog.updateAllPins: the tabs of the pins that hold data are set
MixedDataViewerDialog_updateAllPins(tabs, pins_data) ==
    [name \in DOMAIN tabs |->
        IF \E i \in 1..Len(pins_data) : pins_data[i].name = name
        THEN LET p == pins_data[CHOOSE i \in 1..Len(pins_data) : pins_data[i].name = name]
             IN  IF p.dataType = "DataFramePin"
                 THEN PandasTableModel_setDataFrame(p.data)
                 ELSE PlotViewerTool_setFigure(tabs[name], p.data)
        ELSE tabs[name]]

\* updateDialogData
UpdateDialogData(w) ==
    IF w.viewerDialog = PyNone \/ ~w.isDialogVisible THEN w
    ELSE LET dfs == WithData(w.pins, "DataFramePin")
             figs == WithData(w.pins, "MatplotlibFigurePin")
             d == w.viewerDialog
         IN  CASE d.cls = "DataFrameDialog" ->
                    IF dfs # <<>>
                    THEN [w EXCEPT !.viewerDialog.tabs =
                             [name \in DOMAIN d.tabs |-> DataFrameDialog_setDataFrame(dfs[1].data)]]
                    ELSE w
               [] d.cls = "FigureDialog" ->
                    IF figs # <<>>
                    THEN [w EXCEPT !.viewerDialog.tabs =
                             [name \in DOMAIN d.tabs |->
                                 PlotViewerTool_setFigure(d.tabs[name], figs[1].data)]]
                    ELSE w
               [] d.cls = "MultiDataFrameDialog" -> ShowViewerDialog(CloseViewerDialog(w))
               [] OTHER ->
                    [w EXCEPT !.viewerDialog.tabs =
                        MixedDataViewerDialog_updateAllPins(d.tabs, dfs \o figs)]

\* onNodeComputed, the slot of the node's computed signal
OnNodeComputed(w) == IF w.isDialogVisible THEN UpdateDialogData(w) ELSE w

\* refreshData -> processNode: the node computes, its pins hold new_pins, and the
\* computed signal is sent
RefreshData(w, new_pins) == OnNodeComputed([w EXCEPT !.pins = new_pins])

\* viewData on a node with viewable pins
ViewData(w, new_pins) ==
    LET toggled == [w EXCEPT !.isDialogVisible = ~@]
        shown == IF toggled.isDialogVisible THEN ShowViewerDialog(toggled)
                 ELSE CloseViewerDialog(toggled)
    IN  RefreshData(shown, new_pins)

----------------------------------------------------------------------------
(* PropertiesDialogManager and the properties dialog of the UI nodes; u is
   [nodes, manager, dialogs], a dialog is named by its index in dialogs and 0 is None *)

NoDialog == 0

\* _on_dialog_closed(node_id)
Manager_on_dialog_closed(m, node_id) ==
    IF node_id \in DOMAIN m.active_dialogs
    THEN [active_dialogs |-> [n \in DOMAIN m.active_dialogs \ {node_id} |-> m.active_dialogs[n]],
          current_dialog |-> IF m.current_dialog = m.active_dialogs[node_id]
                             THEN NoDialog ELSE m.current_dialog]
    ELSE m

\* QDialog.close(), accept() or reject() on dialog d: a visible dialog is hidden and
\* emits finished, whose slot (line 46) is _on_dialog_closed of the dialog's node; a
\* hidden dialog stays as it is
FinishDialog(u, d) ==
    IF ~u.dialogs[d].visible THEN u
    ELSE [u EXCEPT !.dialogs[d].visible = FALSE,
                   !.manager = Manager_on_dialog_closed(u.manager, u.dialogs[d].node)]

\* get_or_create_dialog(node, parent)
get_or_create_dialog(u, node) ==
    IF node \in DOMAIN u.manager.active_dialogs THEN u
    ELSE [u EXCEPT !.dialogs = Append(@, [node |-> node, visible |-> FALSE]),
                   !.manager.active_dialogs = @ @@ (node :> Len(u.dialogs) + 1)]

\* show_dialog_for_node that leaves the current dialog on the screen
show_dialog_for_node_NoHide(u, node) ==
    LET g == get_or_create_dialog(u, node)
        dialog == g.manager.active_dialogs[node]
    IN  [g EXCEPT !.dialogs[dialog].visible = TRUE, !.manager.current_dialog = dialog]

\* show_dialog_for_node(node, parent, setNodeCallback)
show_dialog_for_node(u, node) ==
    LET cur == u.manager.current_dialog
        hidden == IF cur # NoDialog /\ u.dialogs[cur].visible
                  THEN [u EXCEPT !.dialogs[cur].visible = FALSE] ELSE u
        g == get_or_create_dialog(hidden, node)
        dialog == g.manager.active_dialogs[node]
    IN  [g EXCEPT !.dialogs[dialog].visible = TRUE, !.manager.current_dialog = dialog]

\* showPropertiesDialog
ShowPropertiesDialog(u, n) ==
    LET s == show_dialog_for_node(u, n)
    IN  [s EXCEPT !.nodes[n].propertiesDialog = s.manager.current_dialog,
                  !.nodes[n].isPropertiesDialogVisible = TRUE]

\* closePropertiesDialog
ClosePropertiesDialog(u, n) ==
    LET d == u.nodes[n].propertiesDialog
        closed == IF d # NoDialog THEN FinishDialog(u, d) ELSE u
    IN  [closed EXCEPT !.nodes[n].isPropertiesDialogVisible = FALSE]

\* togglePropertiesDialog
TogglePropertiesDialog(u, n) ==
    LET d == u.nodes[n].propertiesDialog
    IN  IF d # NoDialog /\ u.dialogs[d].visible /\ u.manager.current_dialog = d
        THEN ClosePropertiesDialog(u, n)
        ELSE ShowPropertiesDialog(u, n)

\* kill: the properties dialog is closed and the host removes the node
Kill(u, n) ==
    LET d == u.nodes[n].propertiesDialog
        closed == IF d # NoDialog THEN FinishDialog(u, d) ELSE u
    IN  [closed EXCEPT !.nodes[n].alive = FALSE]

\* the UI nodes: "A" has viewable pins, "B" has none
UiNodes == {"A", "B"}

\* the UI before anything was clicked; pin_list is the viewable pins of node "A"
NewUi(pin_list) ==
    /\ viewer = [pins |-> pin_list, viewerDialog |-> PyNone, isDialogVisible |-> FALSE,
                 orphans |-> 0]
    /\ uiNodes = [n \in UiNodes |-> [propertiesDialog |-> NoDialog,
                                     isPropertiesDialogVisible |-> FALSE, alive |-> TRUE]]
    /\ manager = [active_dialogs |-> << >>, current_dialog |-> NoDialog]
    /\ dialogs = << >>
    /\ uop = [name |-> "init", node |-> "none", opened |-> FALSE, lastShown |-> "none"]

UiIdle == NewUi(<<ViewPin("data", "DataFramePin")>>)

----------------------------------------------------------------------------
(* The node's life: the values and files the model draws from *)

sP == <<"p">>
sQ == <<"q">>
sAB == <<"a", " ", "b">>
sA_B == <<"a", "_", "b">>
sX == <<"x">>

Paths == {sP, sQ}
PathValues == {PyStr(<<>>), PyStr(<<" ">>), PyStr(sP), PyStr(<<" ", "p">>), PyStr(sQ)}
Books == {<<>>, <<sAB, sA_B>>, <<sAB>>, <<sData, sX>>}
\* what may be stored at each path: anything at p, one workbook or nothing at q
Contents(p) ==
    IF p = sP THEN {Missing, Unreadable} \cup {Book(b) : b \in Books}
    ELSE {Missing, Book(<<sAB>>)}

NoCall == [fn |-> "none"]
NotReturned == [kind |-> "pending"]

CurNode ==
    [pins |-> pins, sheetNames |-> sheetNames, sheetPinMap |-> sheetPinMap,
     lastPath |-> lastPath, error |-> error, upd |-> op.upd]

\* whether some sheet's pin of node n holds data of a read
Loaded(n) ==
    \E i \in 1..Len(n.sheetNames) :
        LET s == n.sheetNames[i]
        IN  /\ s \in DOMAIN n.sheetPinMap
            /\ HasPin(n.pins, n.sheetPinMap[s])
            /\ n.pins[n.sheetPinMap[s]].data # EmptyDF

\* tmpl is the template postCreate was given; the log of an onPathChanged that directly
\* follows postCreate keeps it
OpLog(name, outcome, upd, preLoaded, failed, tmpl) ==
    [name |-> name, outcome |-> outcome, upd |-> upd, preLoaded |-> preLoaded,
     failed |-> failed, tmpl |-> tmpl]

\* the node becomes n, and the operation is logged
Becomes(n, log) ==
    /\ pins' = n.pins
    /\ sheetNames' = n.sheetNames
    /\ sheetPinMap' = n.sheetPinMap
    /\ lastPath' = n.lastPath
    /\ error' = n.error
    /\ op' = log

NodeInit ==
    /\ pins = NewNode.pins
    /\ sheetNames = NewNode.sheetNames
    /\ sheetPinMap = NewNode.sheetPinMap
    /\ lastPath = NewNode.lastPath
    /\ error = NewNode.error
    /\ fs = [p \in Paths |-> Missing]
    /\ op = OpLog("init", "none", NoUpdate, FALSE, {}, NoTemplate)

LibIdle == call = NoCall /\ ret = NotReturned

\* the path pin is set to v and its callback onPathChanged runs
OnPathChangedStep ==
    \E v \in PathValues :
        LET n == [CurNode EXCEPT !.pins = [pins EXCEPT ![sPath].data = v]]
            r == OnPathChanged(n, fs)
            restoredFrom == IF op.name = "postCreate" THEN op.tmpl ELSE NoTemplate
        IN  /\ Becomes(r.node, OpLog("onPathChanged", r.outcome, r.node.upd, Loaded(n), {},
                                     restoredFrom))
            /\ UNCHANGED <<fs, call, ret, uiVars>>

\* inExec fires or the header pin changes: compute runs; the sheets in bad fail to read
ComputeStep ==
    \E bad \in SUBSET {sAB, sA_B, sData, sX} :
        LET r == Compute(CurNode, fs, bad)
            failed == IF r.outcome = "read" THEN bad \cap Range(r.node.sheetNames) ELSE {}
        IN  /\ bad \subseteq Range(r.node.sheetNames)
            /\ Becomes(r.node, OpLog("compute", r.outcome, r.node.upd, Loaded(CurNode), failed,
                                     NoTemplate))
            /\ UNCHANGED <<fs, call, ret, uiVars>>

\* the graph is saved and loaded: a new node is constructed and postCreate is given
\* what serialize() returned (or no template at all)
PostCreateStep ==
    \E tmpl \in {NoTemplate, Serialize(CurNode)} :
        LET n == PostCreate(NewNode, tmpl)
        IN  /\ Becomes(n, OpLog("postCreate", "none", n.upd, FALSE, {}, tmpl))
            /\ UNCHANGED <<fs, call, ret, uiVars>>

\* a file is written, replaced or deleted outside the program
FsWrite ==
    \E p \in Paths :
      \E c \in Contents(p) :
        /\ fs[p] # c
        /\ fs' = [fs EXCEPT ![p] = c]
        /\ UNCHANGED <<pins, sheetNames, sheetPinMap, lastPath, error, op, call, ret, uiVars>>

Init == NodeInit /\ LibIdle /\ UiIdle

Next ==
    \/ OnPathChangedStep
    \/ ComputeStep
    \/ PostCreateStep
    \/ FsWrite

Spec == Init /\ [][Next]_vars

----------------------------------------------------------------------------
(* The UI's life *)

\* the viewable pins a node may have: one DataFrame, one Figure, two DataFrames, a
\* DataFrame and a Figure
PinLists ==
    {<<ViewPin("data", "DataFramePin")>>,
     <<ViewPin("figure", "MatplotlibFigurePin")>>,
     <<ViewPin("a", "DataFramePin"), ViewPin("b", "DataFramePin")>>,
     <<ViewPin("data", "DataFramePin"), ViewPin("figure", "MatplotlibFigurePin")>>}

\* what a computation may leave on the i-th pin: nothing or a value, one of two
\* values on the first pin
PinData(ps, i) ==
    LET versions == IF i = 1 THEN {1, 2} ELSE {1}
    IN  {PyNone} \cup (IF ps[i].dataType = "DataFramePin"
                       THEN {UiFrame(v) : v \in versions}
                       ELSE {Figure(v) : v \in versions})

\* the pins after a computation
Recomputed(ps) ==
    {[i \in 1..Len(ps) |-> [ps[i] EXCEPT !.data = data[i]]] :
        data \in {f \in [1..Len(ps) -> UNION {PinData(ps, i) : i \in 1..Len(ps)}] :
                     \A i \in 1..Len(ps) : f[i] \in PinData(ps, i)}}

CurUi == [nodes |-> uiNodes, manager |-> manager, dialogs |-> dialogs]

UiBecomes(u) ==
    /\ uiNodes' = u.nodes
    /\ manager' = u.manager
    /\ dialogs' = u.dialogs

\* opened: the viewer dialog was opened with viewData and neither viewData nor the
\* user closed a viewer dialog since; lastShown: the node whose properties dialog was
\* shown last
UiLog(name, node, opened, lastShown) ==
    [name |-> name, node |-> node, opened |-> opened, lastShown |-> lastShown]

\* a properties dialog can be shown: the node has one or one more can be created
CanShow(n) == n \in DOMAIN manager.active_dialogs \/ Len(dialogs) < MaxDialogs

UiInit ==
    /\ NodeInit
    /\ LibIdle
    /\ \E pin_list \in PinLists : NewUi(pin_list)

\* the view button of node "A" is clicked
ViewDataStep ==
    \E new_pins \in Recomputed(viewer.pins) :
        /\ uiNodes["A"].alive
        /\ viewer.orphans < MaxOrphans \/ viewer.viewerDialog = PyNone \/ viewer.isDialogVisible
        /\ viewer' = ViewData(viewer, new_pins)
        /\ uop' = UiLog("viewData", "A", ~viewer.isDialogVisible, uop.lastShown)
        /\ UNCHANGED <<nodeVars, libVars, uiNodes, manager, dialogs>>

\* node "A" computes (refresh button or a run of the graph) and sends computed
NodeComputedStep ==
    \E new_pins \in Recomputed(viewer.pins) :
        /\ uiNodes["A"].alive
        /\ viewer' = RefreshData(viewer, new_pins)
        /\ uop' = UiLog("computed", "A", uop.opened, uop.lastShown)
        /\ UNCHANGED <<nodeVars, libVars, uiNodes, manager, dialogs>>

\* the user closes the viewer dialog the node refers to
UserClosesViewer ==
    /\ viewer.viewerDialog # PyNone
    /\ viewer' = OnDialogClosed(viewer)
    /\ uop' = UiLog("userClosesViewer", "A", FALSE, uop.lastShown)
    /\ UNCHANGED <<nodeVars, libVars, uiNodes, manager, dialogs>>

\* the user closes a viewer dialog that was left open without a reference: its
\* finished signal runs onDialogClosed all the same
UserClosesOrphan ==
    /\ viewer.orphans > 0
    /\ viewer' = [OnDialogClosed(viewer) EXCEPT
                     !.orphans = IF viewer.viewerDialog # PyNone THEN @ ELSE @ - 1]
    /\ uop' = UiLog("userClosesOrphan", "A", FALSE, uop.lastShown)
    /\ UNCHANGED <<nodeVars, libVars, uiNodes, manager, dialogs>>

\* node n is double-clicked
TogglePropertiesStep ==
    \E n \in UiNodes :
        LET u == TogglePropertiesDialog(CurUi, n)
            shows == u.manager.current_dialog # NoDialog /\ u.dialogs[u.manager.current_dialog].node = n
        IN  /\ uiNodes[n].alive
            /\ CanShow(n)
            /\ UiBecomes(u)
            /\ uop' = UiLog("togglePropertiesDialog", n, uop.opened,
                            IF shows THEN n ELSE uop.lastShown)
            /\ UNCHANGED <<nodeVars, libVars, viewer>>

\* showPropertiesDialog of node n is called
ShowPropertiesStep ==
    \E n \in UiNodes :
        /\ uiNodes[n].alive
        /\ CanShow(n)
        /\ UiBecomes(ShowPropertiesDialog(CurUi, n))
        /\ uop' = UiLog("showPropertiesDialog", n, uop.opened, n)
        /\ UNCHANGED <<nodeVars, libVars, viewer>>

\* the user closes the properties dialog d with its Close button or its window
UserClosesProperties ==
    \E d \in 1..Len(dialogs) :
        /\ dialogs[d].visible
        /\ UiBecomes(FinishDialog(CurUi, d))
        /\ uop' = UiLog("userClosesProperties", dialogs[d].node, uop.opened, uop.lastShown)
        /\ UNCHANGED <<nodeVars, libVars, viewer>>

\* node n is deleted from the graph
KillStep ==
    \E n \in UiNodes :
        /\ uiNodes[n].alive
        /\ UiBecomes(Kill(CurUi, n))
        /\ uop' = UiLog("kill", n, uop.opened, uop.lastShown)
        /\ UNCHANGED <<nodeVars, libVars, viewer>>

UiNext ==
    \/ ViewDataStep
    \/ NodeComputedStep
    \/ UserClosesViewer
    \/ UserClosesOrphan
    \/ TogglePropertiesStep
    \/ ShowPropertiesStep
    \/ UserClosesProperties
    \/ KillStep

UiSpec == UiInit /\ [][UiNext]_vars

----------------------------------------------------------------------------
(* HyperExcelRead: the properties *)

\* the pin that node state maps sheet s to holds an empty DataFrame, if it exists
SheetPinEmpty(s) ==
    (s \in DOMAIN sheetPinMap /\ HasPin(pins, sheetPinMap[s]))
        => pins[sheetPinMap[s]].data = EmptyDF

\* C1: after _updateOutputPins, distinct sheets are mapped to distinct output pin
\* names and every sheet's pin exists, also when two sheet names sanitize alike
C1_DistinctSheetPins ==
    op.upd.called =>
        /\ \A s, t \in DOMAIN sheetPinMap : s # t => sheetPinMap[s] # sheetPinMap[t]
        /\ \A s \in DOMAIN sheetPinMap : IsDataFramePin(pins, sheetPinMap[s])

\* C2: _updateOutputPins does not kill the pin of a sheet that had a pin before the
\* call and is in the new sheet list, and the sheet keeps its pin name
C2_PinDiffing ==
    op.upd.called =>
        LET u == op.upd
            kept == {s \in Range(u.arg) \cap DOMAIN u.preMap : u.preMap[s] \in u.prePins}
        IN  \A s \in kept : u.preMap[s] \notin u.killed /\ sheetPinMap[s] = u.preMap[s]

\* C3: without sheets the default "data" DataFramePin exists; with sheets it is
\* absent unless a sheet is mapped to the pin name "data"
C3_DefaultPin ==
    /\ sheetNames = <<>> => IsDataFramePin(pins, sData)
    /\ sheetNames # <<>> =>
          \/ ~HasPin(pins, sData)
          \/ \E s \in DOMAIN sheetPinMap : sheetPinMap[s] = sData

\* C5: when compute finds the file missing or cannot open it, then as outExec fires
\* the error is set and every sheet's pin holds an empty DataFrame
C5_FailedOpenClearsPins ==
    (op.name = "compute" /\ op.outcome \in {"missing", "unreadable"}) =>
        /\ error # NoError
        /\ \A i \in 1..Len(sheetNames) : SheetPinEmpty(sheetNames[i])

\* a compute that could not open the file, on a node whose sheet pins held data
C5_Witness ==
    /\ op.name = "compute"
    /\ op.outcome \in {"missing", "unreadable"}
    /\ op.preLoaded
    /\ sheetNames # <<>>

\* C6: when reading a sheet raised during compute, the error set for it is still set
\* when compute returns, and the failing sheet's pin holds an empty DataFrame
C6_SheetErrorReported ==
    (op.name = "compute" /\ op.failed # {}) =>
        /\ error = "Error reading sheet"
        /\ \A s \in op.failed : SheetPinEmpty(s)

\* C7: postCreate on a new node, given what serialize() returned, restores
\* _sheetNames, _sheetPinMap and _lastPath of the serialized node
C7_RoundTrip ==
    (op.name = "postCreate" /\ ~op.tmpl.none) =>
        /\ sheetNames = op.tmpl.sheetNames
        /\ sheetPinMap = op.tmpl.sheetPinMap
        /\ lastPath = op.tmpl.lastPath

\* a node restored from a template that has sheets and a processed path
C7_Witness ==
    /\ op.name = "postCreate"
    /\ ~op.tmpl.none
    /\ sheetNames # <<>>
    /\ lastPath # <<>>
    /\ \E s \in DOMAIN sheetPinMap : IsDataFramePin(pins, sheetPinMap[s])


\* the path pin's value as onPathChanged strips it
StrippedPath(ps) == Strip(ps[sPath].data.s, Whitespace)

\* C16: an onPathChanged whose stripped path equals _lastPath creates and kills no
\* pin and leaves _sheetNames, _sheetPinMap, _lastPath and the error unchanged
C16_SkipsUnchangedPath ==
    [][(/\ op'.name = "onPathChanged"
        /\ op' # op
        /\ IsStr(pins'[sPath].data)
        /\ StrippedPath(pins') = lastPath) =>
            /\ DOMAIN pins' = DOMAIN pins
            /\ \A x \in DOMAIN pins \ {sPath} : pins'[x] = pins[x]
            /\ op'.upd.killed = {} /\ op'.upd.created = {}
            /\ UNCHANGED <<sheetNames, sheetPinMap, lastPath, error>>]_vars

\* C16 amended: an onPathChanged whose path is not blank and whose stripped path
\* equals _lastPath creates and kills no pin and leaves _sheetNames, _sheetPinMap,
\* _lastPath and the error unchanged (a blank path resets the node even when
\* _lastPath is "")
C16_SkipsUnchangedNonBlankPath ==
    [][(/\ op'.name = "onPathChanged"
        /\ op' # op
        /\ ~BlankPath(pins'[sPath].data)
        /\ StrippedPath(pins') = lastPath) =>
            /\ op'.outcome = "unchanged"
            /\ DOMAIN pins' = DOMAIN pins
            /\ \A x \in DOMAIN pins \ {sPath} : pins'[x] = pins[x]
            /\ ~op'.upd.called
            /\ UNCHANGED <<sheetNames, sheetPinMap, lastPath, error>>]_vars

\* an onPathChanged that directly follows a postCreate from a template with sheets was
\* given the restored _lastPath and skipped it
C16_Witness ==
    /\ op.name = "onPathChanged"
    /\ op.outcome = "unchanged"
    /\ ~op.tmpl.none
    /\ op.tmpl.lastPath = lastPath
    /\ lastPath # <<>>
    /\ sheetNames # <<>>

\* C17: when onPathChanged ends without sheet pins (blank path, file missing, file
\* unreadable, workbook without sheets) _sheetNames is empty, "data" is the only
\* DataFramePin and _lastPath is "", so that no later non-blank path is skipped
C17_FullReset ==
    (op.name = "onPathChanged" /\ op.outcome \in {"blank", "missing", "unreadable", "nosheets"}) =>
        /\ sheetNames = <<>>
        /\ DataFramePinNames(pins) = {sData}
        /\ lastPath = <<>>

----------------------------------------------------------------------------
(* The stateless functions: one invocation, drawn from bounded inputs *)

SanChars == {"a", "1", "_", "-", " ", "."}
SanInputs == {PyStr(s) : s \in SeqsUpTo(SanChars, MaxNameLen)} \cup {PyNone, PyInt(0), PyInt(5)}

NumFrames == FramesOver({PyNum(1), PyNum(2), PyNum(3), NaN}, MaxRows)
StrFrames == FramesOver({PyStr(<<"a">>), PyStr(<<"b">>)}, MaxRows)
\* a frame that has rows and no column
NoColumns == DataFrame({}, <<[idx |-> 1]>>)

PinValues ==
    {PyNone, PyInt(0), PyInt(5), PyStr(<<>>), PyStr(<<"a">>), Figure(1), Figure(2)} \cup NumFrames

Operators == {"<", ">", "<=", ">=", "==", "!=", "=<"}
Thresholds == {2}
ColumnNames == {"c", "z"}
ValueLists == SeqsUpTo({"a", "b", ",", " "}, MaxListLen)

SanitizeCalls == {[fn |-> "_sanitizePinName", arg |-> v] : v \in SanInputs}
DataFramePinCalls == {[fn |-> "DataFramePin.processData", arg |-> v] : v \in PinValues}
\* a Figure exists only where matplotlib can be imported
FigurePinCalls ==
    {c \in [fn : {"MatplotlibFigurePin.processData"}, arg : PinValues, importable : BOOLEAN] :
        c.arg.t = "Figure" => c.importable}
ConditionCalls ==
    [fn : {"FilterByCondition"}, data : NumFrames \cup {PyNone, NoColumns},
     column_name : ColumnNames, operator : Operators, threshold : Thresholds]
ListCalls ==
    [fn : {"FilterByList"}, data : StrFrames \cup {PyNone, NoColumns},
     column_name : ColumnNames, value_list : ValueLists]

CodeLines ==
    {Blank, Assign("data.head(1)"), Expr("x"), Expr("data"), Expr("data.head(1)"), Expr("1/0"),
     Return("x"), Return("data.head(1)"), RaiseStmt, BadSyntax}
ProcessorCalls ==
    [fn : {"UniversalDataProcessor"}, data : FramesOver({PyNum(1)}, MaxRows) \cup {PyNone},
     function_code : SeqsUpTo(CodeLines, MaxCodeLines)]

\* what reaches the input pin of a viewer node: nothing, one value, or the list of a
\* Multi pin; and what the dock tool shows before compute
ViewerFrames == {NewDataFrame} \cup {f \in FramesOver({PyNum(1), PyNum(2)}, 1) : f.rows # <<>>}
ViewerFigures == {Figure(1), Figure(2)}
ViewerInputs(vals) == {PyNone} \cup vals \cup {PyList(l) : l \in SeqsUpTo(vals, 2)}
DataViewerCalls ==
    [fn : {"DataViewerNode.compute"}, dirty : BOOLEAN, viewer : BOOLEAN,
     inputData : ViewerInputs(ViewerFrames), shown : ViewerFrames]
PlotViewerCalls ==
    [fn : {"PlotViewerNode.compute"}, dirty : BOOLEAN, viewer : BOOLEAN,
     inputData : ViewerInputs(ViewerFigures), shown : ViewerFigures \cup {PyNone}]

LibInit ==
    /\ NodeInit
    /\ UiIdle
    /\ call \in SanitizeCalls \cup DataFramePinCalls \cup FigurePinCalls
                  \cup ConditionCalls \cup ListCalls \cup ProcessorCalls
                  \cup DataViewerCalls \cup PlotViewerCalls
    /\ ret = NotReturned

SanitizeStep ==
    /\ call.fn = "_sanitizePinName"
    /\ ret = NotReturned
    /\ ret' = Returned(SanitizePinName(call.arg))
    /\ UNCHANGED <<nodeVars, call, uiVars>>

DataFramePinStep ==
    /\ call.fn = "DataFramePin.processData"
    /\ ret = NotReturned
    /\ ret' = DataFramePin_processData(call.arg)
    /\ UNCHANGED <<nodeVars, call, uiVars>>

FigurePinStep ==
    /\ call.fn = "MatplotlibFigurePin.processData"
    /\ ret = NotReturned
    /\ ret' = MatplotlibFigurePin_processData(call.arg, call.importable)
    /\ UNCHANGED <<nodeVars, call, uiVars>>

FilterByConditionStep ==
    /\ call.fn = "FilterByCondition"
    /\ ret = NotReturned
    /\ ret' = FilterByCondition(call.data, call.column_name, call.operator, call.threshold)
    /\ UNCHANGED <<nodeVars, call, uiVars>>

\* the node runs with the inverse pin at inv; ret keeps the outcome of the last run
\* for each setting of the pin
FilterByListStep ==
    \E inv \in BOOLEAN :
        LET out == FilterByList(call.data, call.column_name, call.value_list, inv)
            runs == IF ret = NotReturned THEN [b \in BOOLEAN |-> NotReturned] ELSE ret.runs
        IN  /\ call.fn = "FilterByList"
            /\ runs[inv] = NotReturned
            /\ ret' = [kind |-> "byInverse", runs |-> [runs EXCEPT ![inv] = out]]
            /\ UNCHANGED <<nodeVars, call, uiVars>>

UniversalDataProcessorStep ==
    /\ call.fn = "UniversalDataProcessor"
    /\ ret = NotReturned
    /\ ret' = UniversalDataProcessor(call.data, call.function_code)
    /\ UNCHANGED <<nodeVars, call, uiVars>>

DataViewerNodeStep ==
    /\ call.fn = "DataViewerNode.compute"
    /\ ret = NotReturned
    /\ ret' = DataViewerNode_compute(call.dirty, call.inputData, call.viewer, call.shown)
    /\ UNCHANGED <<nodeVars, call, uiVars>>

PlotViewerNodeStep ==
    /\ call.fn = "PlotViewerNode.compute"
    /\ ret = NotReturned
    /\ ret' = PlotViewerNode_compute(call.dirty, call.inputData, call.viewer, call.shown)
    /\ UNCHANGED <<nodeVars, call, uiVars>>

LibNext ==
    \/ SanitizeStep
    \/ DataFramePinStep
    \/ FigurePinStep
    \/ FilterByConditionStep
    \/ FilterByListStep
    \/ UniversalDataProcessorStep
    \/ DataViewerNodeStep
    \/ PlotViewerNodeStep

LibSpec == LibInit /\ [][LibNext]_vars

----------------------------------------------------------------------------
(* The stateless functions: the properties *)

\* C4: _sanitizePinName returns a non-empty string of word characters and '-' that
\* neither begins nor ends with '_' nor begins with a digit, and returns "sheet" for
\* an empty or non-string input and for a name made only of replaced characters
C4_SanitizedName ==
    (call.fn = "_sanitizePinName" /\ ret # NotReturned) =>
        /\ ret.kind = "value"
        /\ LET r == ret.value
               a == call.arg
           IN  /\ r # <<>>
               /\ \A i \in 1..Len(r) :
                     r[i] \in Letters \cup Digits \cup {"_", "-"}
               /\ r[1] # "_"
               /\ r[Len(r)] # "_"
               /\ r[1] \notin Digits
               /\ (a.t # "str" \/ a.s = <<>>) => r = sSheet
               /\ (a.t = "str" /\ \A i \in 1..Len(a.s) :
                                     a.s[i] \notin Letters \cup Digits \cup {"_", "-"})
                     => r = sSheet

\* a name that starts with a digit and has a character that is replaced
C4_Witness ==
    /\ call.fn = "_sanitizePinName"
    /\ ret # NotReturned
    /\ call.arg.t = "str"
    /\ Len(call.arg.s) = MaxNameLen
    /\ call.arg.s[1] = "1"
    /\ call.arg.s[MaxNameLen] \in {" ", "."}

\* what C8 says of DataFramePin.processData
DataFramePinValidates ==
    (call.fn = "DataFramePin.processData" /\ ret # NotReturned) =>
        /\ call.arg = PyNone => ret = Returned(NewDataFrame)
        /\ call.arg.t = "DataFrame" => ret = Returned(call.arg)
        /\ call.arg.t \notin {"None", "DataFrame"} => ret = Raised("TypeError")
        /\ ret.kind = "value" => ret.value.t = "DataFrame"

Holds(cell, operator, threshold) ==
    \/ cell.t = "nan" /\ operator = "!="
    \/ /\ cell.t = "num"
       /\ \/ operator = "<" /\ cell.v < threshold
          \/ operator = ">" /\ threshold < cell.v
          \/ operator = "<=" /\ ~(threshold < cell.v)
          \/ operator = ">=" /\ ~(cell.v < threshold)
          \/ operator = "==" /\ cell.v = threshold
          \/ operator = "!=" /\ cell.v # threshold

\* rows is taken from the rows of data, unmodified and in their original order
InOriginalOrder(rows, data) ==
    /\ \A i \in 1..Len(rows) : \E j \in 1..Len(data.rows) : rows[i] = data.rows[j]
    /\ \A i, j \in 1..Len(rows) : i < j => rows[i].idx < rows[j].idx

IsEntry(value_list, i, j) ==
    /\ \A k \in i..j : value_list[k] # ","
    /\ i = 1 \/ value_list[i - 1] = ","
    /\ j = Len(value_list) \/ value_list[j + 1] = ","

\* x is a non-blank entry of value_list, surrounding whitespace stripped
IsListedValue(value_list, x) ==
    /\ x # <<>>
    /\ \E i \in 1..Len(value_list) : \E j \in i..Len(value_list) :
          IsEntry(value_list, i, j) /\ Strip(SubSeq(value_list, i, j), Whitespace) = x

\* C10: for non-empty data, an existing column and a list with a non-blank entry, the
\* results with inverse False and inverse True are disjoint and together hold every
\* row once, in order, the first holding the rows whose value is an entry of the list
\* (split on commas, stripped, blanks dropped); a list without a non-blank entry
\* raises ValueError
C10_FilterByListComplement ==
    (call.fn = "FilterByList" /\ ret # NotReturned) =>
        LET d == call.data
            direct == ret.runs[FALSE]
            inverse == ret.runs[TRUE]
            usable == d.t = "DataFrame" /\ d.rows # <<>> /\ call.column_name \in d.cols
            listed == \E i \in 1..Len(call.value_list) :
                          call.value_list[i] \notin {",", " "}
        IN  /\ (usable /\ ~listed) =>
                  \A b \in BOOLEAN : ret.runs[b] # NotReturned => ret.runs[b].kind = "ValueError"
            /\ (usable /\ listed /\ direct # NotReturned) =>
                  /\ direct.kind = "result"
                  /\ InOriginalOrder(direct.value.rows, d)
                  /\ \A j \in 1..Len(d.rows) :
                        (\E i \in 1..Len(direct.value.rows) : direct.value.rows[i] = d.rows[j])
                            <=> IsListedValue(call.value_list, d.rows[j][call.column_name].s)
            /\ (usable /\ listed /\ direct # NotReturned /\ inverse # NotReturned) =>
                  /\ inverse.kind = "result"
                  /\ InOriginalOrder(inverse.value.rows, d)
                  /\ \A j \in 1..Len(d.rows) :
                        (\E i \in 1..Len(inverse.value.rows) : inverse.value.rows[i] = d.rows[j])
                            <=> ~(\E i \in 1..Len(direct.value.rows) :
                                      direct.value.rows[i] = d.rows[j])

\* both runs delivered rows, for a list with a padded entry and a blank entry
C10_Witness ==
    /\ call.fn = "FilterByList"
    /\ ret # NotReturned
    /\ call.value_list = <<" ", "a", ",">>
    /\ ret.runs[FALSE] # NotReturned
    /\ ret.runs[TRUE] # NotReturned
    /\ ret.runs[FALSE].kind = "result"
    /\ ret.runs[TRUE].kind = "result"
    /\ ret.runs[FALSE].value.rows # <<>>
    /\ ret.runs[TRUE].value.rows # <<>>

\* C11: UniversalDataProcessor always delivers a result: None for data None and the
\* input data for blank code, both without touching the code, and the input data
\* whenever compiling or running function_code raised
C11_FallsBackToIdentity ==
    (call.fn = "UniversalDataProcessor" /\ ret # NotReturned) =>
        /\ ret.kind = "result"
        /\ call.data = PyNone => (ret.value = PyNone /\ ret.events = {})
        /\ (\A i \in 1..Len(call.function_code) : call.function_code[i] = Blank)
              => (ret.value = call.data /\ ret.events = {})
        /\ "raised" \in ret.events => ret.value = call.data

\* code that changes the data and then raises, on a frame data.head(1) would shorten
C11_Witness ==
    /\ call.fn = "UniversalDataProcessor"
    /\ ret # NotReturned
    /\ call.function_code = <<Assign("data.head(1)"), RaiseStmt, Return("x")>>
    /\ call.data # PyNone
    /\ Len(call.data.rows) = 2
    /\ "raised" \in ret.events
    /\ ret.value = call.data

\* what x is bound to after lines have run from binding x; Raises when a line raises
Raises == [t |-> "raises"]
RECURSIVE BindingAfter(_, _, _)
BindingAfter(lines, data, x) ==
    IF lines = <<>> THEN x
    ELSE LET line == Head(lines)
             r == EvalExpr(line.e, data, x)
         IN  IF line.k = "blank" THEN BindingAfter(Tail(lines), data, x)
             ELSE IF line.k \in {"raise", "bad"} \/ ~r.ok THEN Raises
             ELSE BindingAfter(Tail(lines), data, IF line.k = "assign" THEN r.v ELSE x)

\* C18: without "return" and with an expression as last line, the result is the value
\* of that line after the lines before it have run ("x = data.head(1)", "x" delivers
\* data.head(1))
C18_LastLineAfterPrecedingLines ==
    (/\ call.fn = "UniversalDataProcessor"
     /\ ret # NotReturned
     /\ call.data # PyNone
     /\ ~IsBlankCode(call.function_code)
     /\ ~ContainsReturn(call.function_code)
     /\ LastLine(call.function_code).k = "expr") =>
        LET code == call.function_code
            n == CHOOSE i \in 1..Len(code) : code[i] = LastLine(code)
                     /\ \A j \in (i + 1)..Len(code) : code[j].k = "blank"
            x == BindingAfter(SubSeq(code, 1, n - 1), call.data, Unbound)
            r == EvalExpr(code[n].e, call.data, x)
        IN  (x # Raises /\ r.ok) => (ret.kind = "result" /\ ret.value = r.v)


\* what the claim has the tool show for inputData: the first element of a non-empty
\* list, the value itself, and the cleared view for None and for an empty list
ViewerExpected(inputData, cleared) ==
    IF inputData.t = "list"
    THEN IF inputData.items # <<>> THEN inputData.items[1] ELSE cleared
    ELSE IF inputData = PyNone THEN cleared ELSE inputData

\* C15: when compute of a viewer node runs with a dirty input and the dock tool is
\* there, the tool is updated and shows the first element of a non-empty list, the
\* single value, or the cleared view for an empty input (an empty list too); when the
\* input is not dirty the tool is not touched
C15_ViewerRefreshed ==
    (call.fn \in {"DataViewerNode.compute", "PlotViewerNode.compute"} /\ ret # NotReturned) =>
        LET cleared == IF call.fn = "DataViewerNode.compute" THEN NewDataFrame ELSE PyNone
        IN  /\ (call.dirty /\ call.viewer) =>
                  /\ ret.touched
                  /\ ret.shown = ViewerExpected(call.inputData, cleared)
            /\ ~call.dirty => (~ret.touched /\ ret.shown = call.shown)


----------------------------------------------------------------------------
(* The dialogs of the UI nodes: the properties *)

\* the viewer dialog the node refers to shows no outdated data: a dialog for a single
\* pin shows the data that some pin holds now, a dialog with tabs shows under each
\* pin's name the data that pin holds now (pins without data are left aside)
ShowsCurrentData ==
    /\ viewer.viewerDialog # PyNone
    /\ LET d == viewer.viewerDialog
           holding == {i \in 1..Len(viewer.pins) : viewer.pins[i].data # PyNone}
       IN  IF d.cls \in {"DataFrameDialog", "FigureDialog"}
           THEN LET dataType == IF d.cls = "DataFrameDialog" THEN "DataFramePin"
                                ELSE "MatplotlibFigurePin"
                    current == {viewer.pins[i].data :
                                   i \in {j \in holding : viewer.pins[j].dataType = dataType}}
                IN  current # {} => \A name \in DOMAIN d.tabs : d.tabs[name] \in current
           ELSE \A i \in holding :
                    viewer.pins[i].name \in DOMAIN d.tabs =>
                        d.tabs[viewer.pins[i].name] = viewer.pins[i].data

\* C12: when a computation of the node completes while its viewer dialog, opened with
\* viewData, has not been closed, the dialog shows the current data of the pins
C12_ViewerFollowsComputations ==
    (uop.name \in {"computed", "viewData"} /\ uop.opened) => ShowsCurrentData

VisibleDialogs == {d \in 1..Len(dialogs) : dialogs[d].visible}

\* C13: at most one properties dialog is visible, and it is the dialog of the node
\* shown last
C13_OnePropertiesDialog ==
    /\ Cardinality(VisibleDialogs) <= 1
    /\ \A d \in VisibleDialogs : dialogs[d].node = uop.lastShown

\* node B's dialog was shown while node A's was visible: A's is hidden and kept, B's
\* is the visible one
C13_Witness ==
    /\ uop.name \in {"showPropertiesDialog", "togglePropertiesDialog"}
    /\ uop.node = "B"
    /\ \E a, b \in 1..Len(dialogs) :
          /\ dialogs[a].node = "A" /\ ~dialogs[a].visible
          /\ "A" \in DOMAIN manager.active_dialogs /\ manager.active_dialogs["A"] = a
          /\ dialogs[b].node = "B" /\ dialogs[b].visible

\* C14: after kill of a node neither its properties dialog nor a viewer dialog of
\* it is open
C14_KillClosesDialogs ==
    uop.name = "kill" =>
        /\ \A d \in VisibleDialogs : dialogs[d].node # uop.node
        /\ uop.node = "A" => (viewer.viewerDialog = PyNone /\ viewer.orphans = 0)

====
